---- MODULE Spec2Model ----
(***************************************************************************)
(* Model of davsync's command-line entry point (src/main.rs).              *)
(*                                                                         *)
(* main parses the command line, reads the "source" and "target" values,   *)
(* selects the process-wide verbosity from the number of occurrences of    *)
(* the "verbose" flag and prints an announcement through reportln!.        *)
(* One variable per piece of process state; one action per statement.      *)
(***************************************************************************)
EXTENDS Integers, Sequences, FiniteSets, TLC

\* Largest number of occurrences of the verbose flag on a command line.
MaxOccurrences == 4

\* Number of distinct path strings a command line may carry.
NumPaths == 3

Paths == 1..NumPaths

\* Option<&str> returned by ArgMatches::value_of.
None == 0
OptPaths == Paths \cup {None}

\* verbosity::Verbosity as spelled by the crate, plus the state of the
\* global before any set_as_global call.
Unset == "Unset"
Levels == {"Quite", "Terse", "Verbose"}

VARIABLES
    pc,            \* position of main: the line about to run, or an end state
    argSource,     \* value_of("source") of the command line
    argTarget,     \* value_of("target") of the command line
    argVerbose,    \* occurrences_of("verbose") of the command line
    matches,       \* TRUE once get_matches has returned
    source_path,   \* local of main, None until bound
    target_path,   \* local of main, None until bound
    global,        \* the process-wide verbosity
    setCalls,      \* number of set_as_global calls made so far
    stdout         \* lines printed so far

vars == <<pc, argSource, argTarget, argVerbose, matches, source_path,
          target_path, global, setCalls, stdout>>

PcValues == {"l7", "l10", "l11", "l12", "l18", "done", "panicked"}

TypeOK ==
    /\ pc \in PcValues
    /\ argSource \in OptPaths
    /\ argTarget \in OptPaths
    /\ argVerbose \in 0..MaxOccurrences
    /\ matches \in BOOLEAN
    /\ source_path \in OptPaths
    /\ target_path \in OptPaths
    /\ global \in Levels \cup {Unset}
    /\ setCalls \in 0..1
    /\ Len(stdout) <= 1

\* The match of lines 12-16: arms are tried in order, `2 | _` takes
\* everything the first two arms left.
SelectVerbosityWrongFallback(n) ==
    CASE n = 0 -> "Quite"
      [] n = 1 -> "Terse"
      [] n = 2 -> "Verbose"
      [] OTHER -> "Terse"

SelectVerbosity(n) ==
    CASE n = 0 -> "Quite"
      [] n = 1 -> "Terse"
      [] OTHER -> "Verbose"

\* What reportln! prints for the two branches of lines 18-21 at a level:
\* the @terse text at Terse, the @verbose text at Verbose, nothing at Quite.
TerseLine == <<"Synchronizing">>
VerboseLine(s, t) == <<"Sync from", s, "to", t, "with verbosity">>

ReportLines(level, s, t) ==
    CASE level = "Terse"   -> <<TerseLine>>
      [] level = "Verbose" -> <<VerboseLine(s, t)>>
      [] OTHER             -> <<>>

\* The process starts with some command line and nothing done yet.
Init ==
    /\ pc = "l7"
    /\ argSource \in OptPaths
    /\ argTarget \in OptPaths
    /\ argVerbose \in 0..MaxOccurrences
    /\ matches = FALSE
    /\ source_path = None
    /\ target_path = None
    /\ global = Unset
    /\ setCalls = 0
    /\ stdout = <<>>

\* line 7: App::from_yaml(yaml).get_matches()
GetMatches ==
    /\ pc = "l7"
    /\ matches' = TRUE
    /\ pc' = "l10"
    /\ UNCHANGED <<argSource, argTarget, argVerbose, source_path,
                   target_path, global, setCalls, stdout>>

\* line 10: matches.value_of("source").unwrap(), Some case
UnwrapSource ==
    /\ pc = "l10"
    /\ argSource # None
    /\ source_path' = argSource
    /\ pc' = "l11"
    /\ UNCHANGED <<argSource, argTarget, argVerbose, matches,
                   target_path, global, setCalls, stdout>>

\* line 10: unwrap of None ends the process
UnwrapSourcePanic ==
    /\ pc = "l10"
    /\ argSource = None
    /\ pc' = "panicked"
    /\ UNCHANGED <<argSource, argTarget, argVerbose, matches, source_path,
                   target_path, global, setCalls, stdout>>

\* line 11: matches.value_of("target").unwrap(), Some case
UnwrapTarget ==
    /\ pc = "l11"
    /\ argTarget # None
    /\ target_path' = argTarget
    /\ pc' = "l12"
    /\ UNCHANGED <<argSource, argTarget, argVerbose, matches,
                   source_path, global, setCalls, stdout>>

\* line 11: unwrap of None ends the process
UnwrapTargetPanic ==
    /\ pc = "l11"
    /\ argTarget = None
    /\ pc' = "panicked"
    /\ UNCHANGED <<argSource, argTarget, argVerbose, matches, source_path,
                   target_path, global, setCalls, stdout>>

\* lines 12-16: the selected level's set_as_global()
SetVerbosity ==
    /\ pc = "l12"
    /\ global' = SelectVerbosity(argVerbose)
    /\ setCalls' = setCalls + 1
    /\ pc' = "l18"
    /\ UNCHANGED <<argSource, argTarget, argVerbose, matches, source_path,
                   target_path, stdout>>

\* lines 18-21: reportln!(@terse ...; @verbose ...), then main returns
Report ==
    /\ pc = "l18"
    /\ stdout' = stdout \o ReportLines(global, source_path, target_path)
    /\ pc' = "done"
    /\ UNCHANGED <<argSource, argTarget, argVerbose, matches, source_path,
                   target_path, global, setCalls>>

Next ==
    \/ GetMatches
    \/ UnwrapSource
    \/ UnwrapSourcePanic
    \/ UnwrapTarget
    \/ UnwrapTargetPanic
    \/ SetVerbosity
    \/ Report

Spec == Init /\ [][Next]_vars

----------------------------------------------------------------------------
\* C9: the verbosity main selects is a total function of the occurrence
\* count of the verbose flag: once the match of lines 12-16 has run, the
\* global level is Quite for 0, Terse for 1 and Verbose for every count
\* >= 2; set_as_global has then been called exactly once, it is never
\* called more than once, and nothing is printed before it.
VerbosityFromCount ==
    /\ setCalls <= 1
    /\ (stdout # <<>>) => setCalls = 1
    /\ (pc \in {"l18", "done"}) =>
          /\ setCalls = 1
          /\ global \in Levels
          /\ (argVerbose = 0) => global = "Quite"
          /\ (argVerbose = 1) => global = "Terse"
          /\ (argVerbose >= 2) => global = "Verbose"
    /\ (pc \notin {"l18", "done"}) => global = Unset /\ setCalls = 0

\* C9 witness: a run with more than two occurrences of the flag has
\* printed its announcement at the most verbose level.
VerbosityFromCountWitness ==
    /\ pc = "done"
    /\ argVerbose > 2
    /\ global = "Verbose"
    /\ setCalls = 1
    /\ stdout = <<VerboseLine(source_path, target_path)>>
====
